---- MODULE Spec2Model ----
(***************************************************************************)
(* Model of the documentation crawler of apitomcp (src/apitomcp/scraper.py) *)
(* scrape_documentation and its nested helpers, detect_api_base_url and    *)
(* merge_operations.  Python str values are TLA+ strings; every text       *)
(* operation of the source (lower, in, startswith, split, urlparse,        *)
(* urljoin, the regular expressions) is computed character by character.   *)
(***************************************************************************)
EXTENDS Integers, Sequences, FiniteSets, TLC

VARIABLES
    \* scrape_documentation: its arguments and locals
    seed_url,           \* the argument url
    max_pages,          \* the page budget
    visited,            \* set[str]
    pages_to_visit,     \* list[tuple[int, str]]
    all_operations,     \* list[Operation]
    markdown_parts,     \* list[str]
    auth_content_parts, \* list[str]
    pc,                 \* "loop" while the while loop runs, "done" after the
                        \* return, "raised" after an exception left the function
    result,             \* the ScrapingResult returned
    \* history: every httpx.get issued, in order, what the last iteration of
    \* the loop did, and every link appended to pages_to_visit with its origin
    fetched,
    last_step,
    enqueued,
    \* history: the number of entries ever appended to pages_to_visit; every
    \* entry of pages_to_visit carries, after (priority, url), its number
    inserted,
    \* merge_operations: the Operation objects on the heap, the argument list
    \* (references into the heap), the returned list and the heap before the call
    heap,
    operations,
    merged_out,
    heap_before,
    \* extract_auth_sections called on its own: argument and return value
    auth_in,
    auth_out,
    \* get_link_priority called on its own: the link and the returned priority
    link_in,
    priority_out,
    \* detect_api_base_url called on its own: the arguments and the return value
    base_in,
    base_out

(***************************************************************************)
(* Python str primitives                                                   *)
(***************************************************************************)
UpperAlpha == "ABCDEFGHIJKLMNOPQRSTUVWXYZ"
LowerAlpha == "abcdefghijklmnopqrstuvwxyz"
Digits == "0123456789"
\* the characters of the model's texts in code point order (Python compares
\* str by code point)
CodePoints == "\n !\"#$%&'()*+,-./0123456789:;<=>?@ABCDEFGHIJKLMNOPQRSTUVWXYZ[]^_abcdefghijklmnopqrstuvwxyz{|}~"

Min(S) == CHOOSE x \in S : \A y \in S : x <= y
Max(S) == CHOOSE x \in S : \A y \in S : x >= y

\* s[i] for a 1-based index, "" outside the string
CharAt(s, i) == IF i >= 1 /\ i <= Len(s) THEN SubSeq(s, i, i) ELSE ""
\* the 1-based slice s[a..b], clipped to the string
Slice(s, a, b) ==
    LET lo == IF a < 1 THEN 1 ELSE a
        hi == IF b > Len(s) THEN Len(s) ELSE b
    IN  IF lo > hi THEN "" ELSE SubSeq(s, lo, hi)
IndexIn(alphabet, c) ==
    IF \E i \in 1..Len(alphabet) : SubSeq(alphabet, i, i) = c
    THEN CHOOSE i \in 1..Len(alphabet) : SubSeq(alphabet, i, i) = c
    ELSE 0
CharsOf(alphabet) == {SubSeq(alphabet, i, i) : i \in 1..Len(alphabet)}
UpperSet == CharsOf(UpperAlpha)
LowerSet == CharsOf(LowerAlpha)
DigitSet == CharsOf(Digits)
\* ord(c), as the rank of c among the characters of the model
OrdTable == [c \in CharsOf(CodePoints) |-> IndexIn(CodePoints, c)]
Ord(c) == OrdTable[c]
LowerTable == [c \in UpperSet |-> SubSeq(LowerAlpha, IndexIn(UpperAlpha, c), IndexIn(UpperAlpha, c))]
UpperTable == [c \in LowerSet |-> SubSeq(UpperAlpha, IndexIn(LowerAlpha, c), IndexIn(LowerAlpha, c))]
IsUpper(c) == c \in UpperSet
IsAlpha(c) == c \in UpperSet \/ c \in LowerSet
IsDigit(c) == c \in DigitSet
\* \w of the re module
IsWordChar(c) == IsAlpha(c) \/ IsDigit(c) \/ c = "_"
\* \s of the re module, and the characters str.strip() and str.split() drop
IsSpace(c) == c \in {" ", "\n", "\t", "\r", "\f"}
LowerChar(c) == IF c \in UpperSet THEN LowerTable[c] ELSE c
UpperChar(c) == IF c \in LowerSet THEN UpperTable[c] ELSE c

RECURSIVE Lower(_)
\* str.lower()
Lower(s) == IF s = "" THEN "" ELSE LowerChar(Head(s)) \o Lower(Tail(s))
RECURSIVE Upper(_)
\* str.upper()
Upper(s) == IF s = "" THEN "" ELSE UpperChar(Head(s)) \o Upper(Tail(s))

\* s.startswith(pre, p-1): pre occurs in s at position p
StartsWithAt(s, p, pre) ==
    /\ p >= 1
    /\ p + Len(pre) - 1 <= Len(s)
    /\ (pre = "" \/ SubSeq(s, p, p + Len(pre) - 1) = pre)
StartsWith(s, pre) == StartsWithAt(s, 1, pre)
EndsWith(s, suf) == Len(suf) <= Len(s) /\ StartsWithAt(s, Len(s) - Len(suf) + 1, suf)
\* sub in s
Contains(sub, s) == \E p \in 1..(Len(s) + 1) : StartsWithAt(s, p, sub)
\* s.find(sub, from-1) as a 1-based position, 0 when absent
Find(s, sub, from) ==
    LET P == {p \in from..(Len(s) + 1) : StartsWithAt(s, p, sub)}
    IN  IF P = {} THEN 0 ELSE Min(P)
\* s.rfind(sub, 0, upto): the last occurrence lying wholly before position upto
RFind(s, sub, upto) ==
    LET P == {p \in 1..(Len(s) + 1) : StartsWithAt(s, p, sub) /\ p + Len(sub) - 1 <= upto}
    IN  IF P = {} THEN 0 ELSE Max(P)
\* str.strip()
Strip(s) ==
    LET K == {i \in 1..Len(s) : ~IsSpace(CharAt(s, i))}
    IN  IF K = {} THEN "" ELSE SubSeq(s, Min(K), Max(K))
\* str.rstrip(chars) / str.strip(chars) for a set of characters
RStripChars(s, chars) ==
    LET K == {i \in 1..Len(s) : CharAt(s, i) \notin chars}
    IN  IF K = {} THEN "" ELSE SubSeq(s, 1, Max(K))
StripChars(s, chars) ==
    LET K == {i \in 1..Len(s) : CharAt(s, i) \notin chars}
    IN  IF K = {} THEN "" ELSE SubSeq(s, Min(K), Max(K))
RECURSIVE SplitOn(_, _)
\* str.split(sep) for a one-character separator
SplitOn(s, sep) ==
    LET p == Find(s, sep, 1)
    IN  IF p = 0 THEN <<s>>
        ELSE <<Slice(s, 1, p - 1)>> \o SplitOn(Slice(s, p + 1, Len(s)), sep)
RECURSIVE JoinWith(_, _)
\* sep.join(parts)
JoinWith(parts, sep) ==
    IF parts = <<>> THEN ""
    ELSE IF Len(parts) = 1 THEN parts[1]
    ELSE parts[1] \o sep \o JoinWith(Tail(parts), sep)
\* str.replace(old, new) for a non-empty old
RECURSIVE Replace(_, _, _)
Replace(s, old, new) ==
    LET p == Find(s, old, 1)
    IN  IF p = 0 THEN s
        ELSE Slice(s, 1, p - 1) \o new \o Replace(Slice(s, p + Len(old), Len(s)), old, new)
RECURSIVE StrLess(_, _)
\* a < b on str: lexicographic by code point
StrLess(a, b) ==
    IF b = "" THEN FALSE
    ELSE IF a = "" THEN TRUE
    ELSE IF Head(a) = Head(b) THEN StrLess(Tail(a), Tail(b))
    ELSE Ord(Head(a)) < Ord(Head(b))
\* the first whitespace-delimited token, s.split()[0], of a string that has one
FirstToken(s) ==
    LET K == {i \in 1..Len(s) : ~IsSpace(CharAt(s, i))}
        a == Min(K)
        E == {i \in a..Len(s) : IsSpace(CharAt(s, i))}
    IN  SubSeq(s, a, IF E = {} THEN Len(s) ELSE Min(E) - 1)
SeqToSet(q) == {q[i] : i \in 1..Len(q)}

(***************************************************************************)
(* urllib.parse as scraper.py uses it (line 7): urlparse and urljoin.       *)
(* Intermediate results are passed on as operator arguments, in the order   *)
(* in which urlsplit computes them.                                         *)
(***************************************************************************)
SchemeChars == "abcdefghijklmnopqrstuvwxyzABCDEFGHIJKLMNOPQRSTUVWXYZ0123456789+-."
SchemeCharSet == CharsOf(SchemeChars)
\* urllib's uses_relative and uses_netloc, restricted to the schemes of the model
UsesRelative == {"", "http", "https", "ftp", "file"}
UsesNetloc == {"", "http", "https", "ftp", "file"}

\* url[:i] is a scheme: i > 0, a leading letter, scheme characters only
HasScheme(url, i) ==
    /\ i > 1
    /\ IsAlpha(CharAt(url, 1))
    /\ \A k \in 1..(i - 1) : CharAt(url, k) \in SchemeCharSet
\* urlparse(url): scheme, netloc, path, query, fragment (no text of the model
\* holds ';', so the params component is always empty)
urlparse(url) ==
    LET SplitQuery(scheme, netloc, rest, fragment) ==
            LET q == Find(rest, "?", 1)
            IN  [scheme |-> scheme, netloc |-> netloc,
                 path |-> IF q > 0 THEN Slice(rest, 1, q - 1) ELSE rest,
                 query |-> IF q > 0 THEN Slice(rest, q + 1, Len(rest)) ELSE "",
                 fragment |-> fragment]
        SplitFragment(scheme, netloc, rest) ==
            LET h == Find(rest, "#", 1)
            IN  SplitQuery(scheme, netloc,
                           IF h > 0 THEN Slice(rest, 1, h - 1) ELSE rest,
                           IF h > 0 THEN Slice(rest, h + 1, Len(rest)) ELSE "")
        SplitNetloc(scheme, rest) ==
            LET D == {k \in 3..Len(rest) : CharAt(rest, k) \in {"/", "?", "#"}}
                e == IF D = {} THEN Len(rest) ELSE Min(D) - 1
                has == StartsWith(rest, "//")
            IN  SplitFragment(scheme,
                              IF has THEN Slice(rest, 3, e) ELSE "",
                              IF has THEN Slice(rest, e + 1, Len(rest)) ELSE rest)
        i == Find(url, ":", 1)
    IN  SplitNetloc(IF HasScheme(url, i) THEN Lower(Slice(url, 1, i - 1)) ELSE "",
                    IF HasScheme(url, i) THEN Slice(url, i + 1, Len(url)) ELSE url)

\* urlsplit raises ValueError("Invalid IPv6 URL") when the netloc holds one of
\* '[' and ']' without the other
UrlRaises(url) ==
    LET Unmatched(netloc) == Contains("[", netloc) # Contains("]", netloc)
    IN  Unmatched(urlparse(url).netloc)

\* urlunparse of the five components
urlunparse(u) ==
    LET Fragment(p3) == IF u.fragment # "" THEN p3 \o "#" \o u.fragment ELSE p3
        Query(p2) == Fragment(IF u.query # "" THEN p2 \o "?" \o u.query ELSE p2)
        Scheme(p1) == Query(IF u.scheme # "" THEN u.scheme \o ":" \o p1 ELSE p1)
    IN  Scheme(IF u.netloc # "" \/ (u.scheme \in UsesNetloc /\ ~StartsWith(u.path, "//"))
               THEN "//" \o u.netloc
                    \o (IF u.path # "" /\ ~StartsWith(u.path, "/") THEN "/" ELSE "")
                    \o u.path
               ELSE u.path)

RECURSIVE ResolveDots(_, _)
\* the dot-segment loop of urljoin: '..' pops (ignored on an empty list), '.' is
\* dropped
ResolveDots(segments, resolved) ==
    IF segments = <<>> THEN resolved
    ELSE ResolveDots(Tail(segments),
             IF Head(segments) = ".."
             THEN (IF resolved = <<>> THEN resolved
                   ELSE SubSeq(resolved, 1, Len(resolved) - 1))
             ELSE IF Head(segments) = "." THEN resolved
             ELSE Append(resolved, Head(segments)))
\* segments[1:-1] = filter(None, segments[1:-1])
DropEmptyMiddle(segments) ==
    IF Len(segments) <= 2 THEN segments
    ELSE <<segments[1]>>
         \o SelectSeq(SubSeq(segments, 2, Len(segments) - 1), LAMBDA x : x # "")
         \o <<segments[Len(segments)]>>
\* base_parts of urljoin: bpath.split('/') without a non-empty last part
BaseParts(parts) ==
    IF parts[Len(parts)] # "" THEN SubSeq(parts, 1, Len(parts) - 1) ELSE parts
\* '/'.join(resolved_path) or '/', with the '' appended after a final dot segment
ResolvedPath(segments) ==
    LET Joined(path) == IF path = "" THEN "/" ELSE path
        Resolved(resolved) ==
            Joined(JoinWith(IF segments[Len(segments)] \in {".", ".."}
                            THEN Append(resolved, "") ELSE resolved, "/"))
    IN  Resolved(ResolveDots(segments, <<>>))
\* the path urljoin computes from the base path and a non-empty relative path
JoinedPath(bpath, path) ==
    ResolvedPath(DropEmptyMiddle(
        IF StartsWith(path, "/") THEN SplitOn(path, "/")
        ELSE BaseParts(SplitOn(bpath, "/")) \o SplitOn(path, "/")))
\* urljoin(base, url)
urljoin(base, url) ==
    LET \* b = urlparse(base); u = urlparse(url, bscheme)
        Join(b, u) ==
            IF u.scheme # b.scheme \/ u.scheme \notin UsesRelative THEN url
            ELSE IF u.scheme \in UsesNetloc /\ u.netloc # "" THEN urlunparse(u)
            ELSE IF u.path = ""
            THEN urlunparse([u EXCEPT !.netloc = b.netloc, !.path = b.path,
                                      !.query = IF u.query = "" THEN b.query ELSE u.query])
            ELSE urlunparse([u EXCEPT !.netloc = b.netloc,
                                      !.path = JoinedPath(b.path, u.path)])
        Default(b, u0) == Join(b, IF u0.scheme = "" THEN [u0 EXCEPT !.scheme = b.scheme] ELSE u0)
    IN  IF url = "" THEN base
        ELSE IF base = "" THEN url
        ELSE Default(urlparse(base), urlparse(url))

(***************************************************************************)
(* Module constants of scraper.py                                          *)
(***************************************************************************)
HTTP_METHODS == <<"GET", "POST", "PUT", "PATCH", "DELETE", "HEAD", "OPTIONS">>
CURL_METHODS == <<"GET", "POST", "PUT", "PATCH", "DELETE">>
NAV_KEYWORDS ==
    <<"api", "reference", "endpoint", "resource", "method", "operation", "rest",
      "documentation", "docs", "guide">>
ENDPOINT_KEYWORDS ==
    <<"get-", "create-", "update-", "delete-", "list-", "search-", "save-", "remove-",
      "check-", "add-", "set-", "start-", "stop-", "pause-", "play-", "skip-", "seek-",
      "transfer-", "follow-", "unfollow-">>
SKIP_KEYWORDS ==
    <<"changelog", "blog", "pricing", "support", "contact", "login", "signup",
      "register", "download", "community", "forum", "faq", "terms", "privacy", "legal",
      "status", "careers">>
AUTH_URL_KEYWORDS ==
    <<"auth", "authentication", "authorization", "oauth", "token", "credentials",
      "api-key", "apikey", "access-token", "getting-started">>
\* the alternatives of AUTH_HEADING_PATTERN in the order the pattern lists them;
\* each is a sequence of words joined by \s+ in the pattern
AUTH_HEADING_WORDS ==
    << <<"authentication">>, <<"authorization">>, <<"auth">>, <<"oauth">>,
       <<"getting", "started">>, <<"access", "token">>, <<"api", "key">>,
       <<"credentials">>, <<"client", "credentials">> >>

(***************************************************************************)
(* Regular-expression helpers                                              *)
(***************************************************************************)
\* the last position of the maximal run of characters satisfying Ok that starts
\* at p (p - 1 when the run is empty)
RunEnd(s, p, Ok(_)) ==
    LET Stop == {k \in p..Len(s) : ~Ok(CharAt(s, k))}
    IN  IF p > Len(s) THEN p - 1
        ELSE IF Stop = {} THEN Len(s) ELSE Min(Stop) - 1
WsRunEnd(s, p) == RunEnd(s, p, IsSpace)
\* the alternative of a (A|B|...) group of literals that matches at p, ignoring
\* case, as its index in alts (0: none); the first alternative that matches wins
AltAt(s, p, alts) ==
    LET M == {i \in 1..Len(alts) : Lower(Slice(s, p, p + Len(alts[i]) - 1)) = Lower(alts[i])}
    IN  IF M = {} THEN 0 ELSE Min(M)
\* ^ under re.MULTILINE
IsLineStart(s, p) == p = 1 \/ CharAt(s, p - 1) = "\n"

RECURSIVE SortedSeq(_)
\* the elements of a finite set of integers in ascending order
SortedSeq(S) == IF S = {} THEN <<>> ELSE <<Min(S)>> \o SortedSeq(S \ {Min(S)})

(***************************************************************************)
(* extract_auth_sections (scraper.py 164-186) and AUTH_HEADING_PATTERN      *)
(***************************************************************************)
IsHash(c) == c = "#"
RECURSIVE WordsEndAt(_, _, _)
\* the end of word1 \s+ word2 ... matched at p ignoring case, 0 when no match
WordsEndAt(s, p, words) ==
    IF Lower(Slice(s, p, p + Len(words[1]) - 1)) # words[1] THEN 0
    ELSE IF Len(words) = 1 THEN p + Len(words[1]) - 1
    ELSE IF WsRunEnd(s, p + Len(words[1])) < p + Len(words[1]) THEN 0
    ELSE WordsEndAt(s, WsRunEnd(s, p + Len(words[1])) + 1, Tail(words))
\* the end of the group (authentication|authorization|...) matched at p: the
\* first alternative that matches, 0 when none does
AuthWordsEndAt(s, p) ==
    LET First(A) == IF A = {} THEN 0 ELSE WordsEndAt(s, p, AUTH_HEADING_WORDS[Min(A)])
    IN  First({i \in 1..Len(AUTH_HEADING_WORDS) : WordsEndAt(s, p, AUTH_HEADING_WORDS[i]) > 0})
\* AUTH_HEADING_PATTERN matched at p: ^#+\s*(alternatives); [start, end] of
\* group 0, end = 0 when there is no match at p
AuthHeadingAt(markdown, p) ==
    LET Words(h) == AuthWordsEndAt(markdown, WsRunEnd(markdown, h + 1) + 1)
    IN  [start |-> p,
         end |-> IF IsLineStart(markdown, p) /\ CharAt(markdown, p) = "#"
                 THEN Words(RunEnd(markdown, p, IsHash)) ELSE 0]
\* list(AUTH_HEADING_PATTERN.finditer(markdown))
AuthHeadingMatches(markdown) ==
    LET Matches(ps) == [i \in 1..Len(ps) |-> AuthHeadingAt(markdown, ps[i])]
    IN  Matches(SortedSeq({p \in 1..Len(markdown) : AuthHeadingAt(markdown, p).end > 0}))
\* heading_level = len(match.group(0).split()[0])
HeadingLevel(markdown, m) == Len(FirstToken(Slice(markdown, m.start, m.end)))
\* ^#{1,level}\s+\S matched at q
NextHeadingAt(markdown, q, level) ==
    LET Rest(h, w) == h >= q /\ h - q + 1 <= level /\ w >= h + 1 /\ w < Len(markdown)
        Hashes(h) == Rest(h, WsRunEnd(markdown, h + 1))
    IN  IsLineStart(markdown, q) /\ Hashes(RunEnd(markdown, q, IsHash))
\* one iteration of the loop over the matches: the stripped section of match m
AuthSection(markdown, m) ==
    LET Section(N) ==
            Strip(Slice(markdown, m.start, IF N = {} THEN Len(markdown) ELSE Min(N) - 1))
        Level(level) ==
            Section({q \in (m.end + 1)..Len(markdown) : NextHeadingAt(markdown, q, level)})
    IN  Level(HeadingLevel(markdown, m))
extract_auth_sections(markdown) ==
    LET Sections(matches) ==
            SelectSeq([i \in 1..Len(matches) |-> AuthSection(markdown, matches[i])],
                      LAMBDA x : x # "")
    IN  JoinWith(Sections(AuthHeadingMatches(markdown)), "\n\n---\n\n")


(***************************************************************************)
(* scrape_documentation: locals derived from the seed URL (149-151)         *)
(***************************************************************************)
\* f"{parsed.scheme}://{parsed.netloc}"
SchemeHost(parsed) == parsed.scheme \o "://" \o parsed.netloc
\* f"{parsed.scheme}://{parsed.netloc}{parsed.path}"
SchemeHostPath(parsed) == parsed.scheme \o "://" \o parsed.netloc \o parsed.path
\* path.rsplit("/", 1)[0] if "/" in path else ""
BasePathOf(path) ==
    LET Head1(P) == IF P = {} THEN "" ELSE Slice(path, 1, Max(P) - 1)
    IN  Head1({k \in 1..Len(path) : CharAt(path, k) = "/"})
domain == SchemeHost(urlparse(seed_url))
base_path == BasePathOf(urlparse(seed_url).path)

\* any(kw in lower_url for kw in AUTH_URL_KEYWORDS)
is_auth_related_url(page_url) ==
    LET AnyKeyword(lower_url) ==
            \E i \in 1..Len(AUTH_URL_KEYWORDS) : Contains(AUTH_URL_KEYWORDS[i], lower_url)
    IN  AnyKeyword(Lower(page_url))

(***************************************************************************)
(* Link classifier: get_link_priority (188-212), is_valid_doc_link          *)
(* (214-235), extract_navigation_links (237-276)                            *)
(***************************************************************************)
\* the indices of the keywords found in the lowered href or text
KeywordHits(keywords, lower_href, lower_text) ==
    {i \in 1..Len(keywords) :
        Contains(keywords[i], lower_href) \/ Contains(keywords[i], lower_text)}
\* the rules of get_link_priority with the endpoint check put before the skip
\* check
LinkPriorityEndpointFirst(href, lower_href, lower_text, prefix) ==
    LET Nav(nav) == IF nav # {} THEN 10 + (Min(nav) - 1) ELSE 50
    IN  IF KeywordHits(ENDPOINT_KEYWORDS, lower_href, lower_text) # {} THEN 1
        ELSE IF KeywordHits(SKIP_KEYWORDS, lower_href, lower_text) # {} THEN 999
        ELSE IF prefix # "" /\ StartsWith(href, prefix) THEN 5
        ELSE Nav(KeywordHits(NAV_KEYWORDS, lower_href, lower_text))
\* the rules of get_link_priority with the navigation keywords looked up
\* before the prefix
LinkPriorityNavFirst(href, lower_href, lower_text, prefix) ==
    LET Nav(nav) ==
            IF nav # {} THEN 10 + (Min(nav) - 1)
            ELSE IF prefix # "" /\ StartsWith(href, prefix) THEN 5
            ELSE 50
    IN  IF KeywordHits(SKIP_KEYWORDS, lower_href, lower_text) # {} THEN 999
        ELSE IF KeywordHits(ENDPOINT_KEYWORDS, lower_href, lower_text) # {} THEN 1
        ELSE Nav(KeywordHits(NAV_KEYWORDS, lower_href, lower_text))
\* the rules of get_link_priority without the endpoint rule
LinkPriorityNoEndpoint(href, lower_href, lower_text, prefix) ==
    LET Nav(nav) == IF nav # {} THEN 10 + (Min(nav) - 1) ELSE 50
    IN  IF KeywordHits(SKIP_KEYWORDS, lower_href, lower_text) # {} THEN 999
        ELSE IF prefix # "" /\ StartsWith(href, prefix) THEN 5
        ELSE Nav(KeywordHits(NAV_KEYWORDS, lower_href, lower_text))
\* the rules of get_link_priority (194-212), first match wins; prefix is
\* base_path
LinkPriority(href, lower_href, lower_text, prefix) ==
    LET Nav(nav) == IF nav # {} THEN 10 + (Min(nav) - 1) ELSE 50
    IN  IF KeywordHits(SKIP_KEYWORDS, lower_href, lower_text) # {} THEN 999
        ELSE IF KeywordHits(ENDPOINT_KEYWORDS, lower_href, lower_text) # {} THEN 1
        ELSE IF prefix # "" /\ StartsWith(href, prefix) THEN 5
        ELSE Nav(KeywordHits(NAV_KEYWORDS, lower_href, lower_text))
get_link_priority(href, link_text) ==
    LinkPriority(href, Lower(href), Lower(link_text), base_path)

is_valid_doc_link(href, base_domain) ==
    LET SameDomain(netloc) == netloc = "" \/ netloc = urlparse(base_domain).netloc
    IN  /\ href # ""
        /\ \A pre \in {"#", "javascript:", "mailto:", "tel:", "data:"} : ~StartsWith(href, pre)
        /\ \A ext \in {".pdf", ".zip", ".tar", ".gz"} : ~EndsWith(Lower(href), ext)
        /\ SameDomain(urlparse(href).netloc)

\* clean_url of the joined URL (251-253, 265-267)
clean_url(page_url, href) == SchemeHostPath(urlparse(urljoin(page_url, href)))

\* the tuple (priority, clean_url) appended to links, together with the anchor
\* it was computed from and the loop that appended it (not part of the tuple:
\* kept so that properties can speak of the link behind a frontier entry)
LinkEntry(priority, clean, link, in_nav) ==
    [priority |-> priority, url |-> clean, href |-> link.href, text |-> link.text,
     in_nav |-> in_nav]
\* the body of the first loop (250-260) for one anchor; acc = [links, nav_links]
NavStep(link, clean, priority, seen, acc) ==
    IF is_valid_doc_link(link.href, domain) /\ clean \notin seen /\ priority < 999
    THEN [links |-> Append(acc.links, LinkEntry(priority, clean, link, TRUE)),
          nav_links |-> acc.nav_links \cup {clean}]
    ELSE acc
RECURSIVE NavLoop(_, _, _, _)
\* the first loop (248-260) over the anchors of the navigation elements, in
\* order; seen is the captured set visited as it is when the loop runs
NavLoop(anchors, page_url, seen, acc) ==
    IF anchors = <<>> THEN acc
    ELSE NavLoop(Tail(anchors), page_url, seen,
                 NavStep(Head(anchors), clean_url(page_url, Head(anchors).href),
                         get_link_priority(Head(anchors).href, Head(anchors).text),
                         seen, acc))
\* a second loop that does not look into nav_links
ContentStepNoNavCheck(link, clean, priority, seen, nav_links, links) ==
    IF /\ clean \notin seen
       /\ is_valid_doc_link(link.href, domain)
       /\ priority < 999
    THEN Append(links, LinkEntry(priority, clean, link, FALSE))
    ELSE links
\* the body of the second loop (264-274) for one anchor
ContentStep(link, clean, priority, seen, nav_links, links) ==
    IF /\ clean \notin nav_links
       /\ clean \notin seen
       /\ is_valid_doc_link(link.href, domain)
       /\ priority < 999
    THEN Append(links, LinkEntry(priority, clean, link, FALSE))
    ELSE links
RECURSIVE ContentLoop(_, _, _, _, _)
\* the second loop (263-274) over every anchor of the page
ContentLoop(anchors, page_url, seen, nav_links, links) ==
    IF anchors = <<>> THEN links
    ELSE ContentLoop(Tail(anchors), page_url, seen, nav_links,
                     ContentStep(Head(anchors), clean_url(page_url, Head(anchors).href),
                                 get_link_priority(Head(anchors).href, Head(anchors).text) + 20,
                                 seen, nav_links, links))
RECURSIVE Flatten(_)
Flatten(seqs) == IF seqs = <<>> THEN <<>> ELSE Head(seqs) \o Flatten(Tail(seqs))
\* the anchors inside the navigation elements, element by element
NavAnchors(soup) ==
    Flatten([n \in 1..Len(soup.nav_elements) |->
                [k \in 1..Len(soup.nav_elements[n]) |->
                    soup.anchors[soup.nav_elements[n][k]]]])
\* soup is the parsed page after decompose(): soup.anchors are its <a href>
\* elements in document order, soup.nav_elements lists, for each element that
\* nav_elements holds (an element found by several find_all calls is held
\* several times), the indices of the anchors inside it
extract_navigation_links(soup, page_url, seen) ==
    LET Content(nav) == ContentLoop(soup.anchors, page_url, seen, nav.nav_links, nav.links)
    IN  Content(NavLoop(NavAnchors(soup), page_url, seen, [links |-> <<>>, nav_links |-> {}]))


(***************************************************************************)
(* Operation extractor: HTTP_METHOD_PATTERN, CURL_PATTERN and               *)
(* extract_operations_from_content (278-360)                                *)
(***************************************************************************)
NoMatch == [start |-> 0, end |-> 0, g1 |-> "", g2 |-> ""]
\* [^\s\)\"\'<>\n]
IsPathChar(c) == c # "" /\ ~IsSpace(c) /\ c \notin {")", "\"", "'", "<", ">"}
\* [^\s\"\']
IsUrlChar(c) == c # "" /\ ~IsSpace(c) /\ c \notin {"\"", "'"}
IsQuote(c) == c \in {"\"", "'"}

\* HTTP_METHOD_PATTERN matched at p: \b(METHOD)\s+(/[^...]+), ignoring case.
\* mi: the method alternative, me: its end, ws: the end of \s+, pe: the end of
\* the path
HttpMatchAt(content, p) ==
    LET Path(me, ws, pe) ==
            IF ws >= me + 1 /\ CharAt(content, ws + 1) = "/" /\ pe >= ws + 2
            THEN [start |-> p, end |-> pe, g1 |-> Slice(content, p, me),
                  g2 |-> Slice(content, ws + 1, pe)]
            ELSE NoMatch
        Space(me, ws) == Path(me, ws, RunEnd(content, ws + 2, IsPathChar))
        Method(mi) ==
            IF mi = 0 THEN NoMatch
            ELSE Space(p + Len(HTTP_METHODS[mi]) - 1,
                       WsRunEnd(content, p + Len(HTTP_METHODS[mi])))
    IN  IF /\ LowerChar(CharAt(content, p)) \in {"g", "p", "d", "h", "o"}
           /\ ~IsWordChar(CharAt(content, p - 1))
        THEN Method(AltAt(content, p, HTTP_METHODS))
        ELSE NoMatch
RECURSIVE HttpMatches(_, _)
\* HTTP_METHOD_PATTERN.finditer(content): the non-overlapping matches from
\* position from on, leftmost first
HttpMatches(content, from) ==
    LET Rest(m) == <<m>> \o HttpMatches(content, m.end + 1)
        First(P) == IF P = {} THEN <<>> ELSE Rest(HttpMatchAt(content, Min(P)))
    IN  First({p \in from..Len(content) : HttpMatchAt(content, p).end > 0})

\* https?://[^\s"']+ matched at p (ignoring case): its end, 0 when no match
BareUrlEndAt(content, p) ==
    LET Run(a, e) == IF a > 0 /\ e >= a THEN e ELSE 0
        Scheme(a) == Run(a, IF a > 0 THEN RunEnd(content, a, IsUrlChar) ELSE 0)
    IN  Scheme(IF Lower(Slice(content, p, p + 7)) = "https://" THEN p + 8
               ELSE IF Lower(Slice(content, p, p + 6)) = "http://" THEN p + 7
               ELSE 0)
\* the URL group of CURL_PATTERN at u: the bare URL, or the URL between quotes;
\* [end, g2], end = 0 when neither alternative matches
UrlAt(content, u) ==
    LET Quoted(q) ==
            IF IsQuote(CharAt(content, u)) /\ q > 0 /\ IsQuote(CharAt(content, q + 1))
            THEN [end |-> q + 1, g2 |-> Slice(content, u, q + 1)]
            ELSE [end |-> 0, g2 |-> ""]
        Bare(e) ==
            IF e > 0 THEN [end |-> e, g2 |-> Slice(content, u, e)]
            ELSE Quoted(BareUrlEndAt(content, u + 1))
    IN  Bare(BareUrlEndAt(content, u))
\* (?:--request|-X)\s+(METHOD)\s+.*?(URL) matched from the flag at f on; the
\* lazy .*? stops at the first position where the URL group matches
CurlRestAt(content, f) ==
    LET Url(w1, me, U) ==
            IF U = {} THEN NoMatch
            ELSE [start |-> f, end |-> UrlAt(content, Min(U)).end,
                  g1 |-> Slice(content, w1 + 1, me), g2 |-> UrlAt(content, Min(U)).g2]
        Space2(w1, me, w2) ==
            IF w2 < me + 1 THEN NoMatch
            ELSE Url(w1, me, {u \in (w2 + 1)..Len(content) : UrlAt(content, u).end > 0})
        Method(w1, mi) ==
            IF mi = 0 THEN NoMatch
            ELSE Space2(w1, w1 + Len(CURL_METHODS[mi]),
                        WsRunEnd(content, w1 + Len(CURL_METHODS[mi]) + 1))
        Space1(flag, w1) ==
            IF flag = 0 \/ w1 < f + flag THEN NoMatch
            ELSE Method(w1, AltAt(content, w1 + 1, CURL_METHODS))
        Flag(flag) == Space1(flag, WsRunEnd(content, f + flag))
    IN  IF CharAt(content, f) # "-" THEN NoMatch
        ELSE Flag(IF Lower(Slice(content, f, f + 8)) = "--request" THEN 9
                  ELSE IF Lower(Slice(content, f, f + 1)) = "-x" THEN 2 ELSE 0)
\* CURL_PATTERN matched at p: curl\s+.*?REST under re.DOTALL; the lazy .*?
\* stops at the first flag from which the rest matches
CurlMatchAt(content, p) ==
    LET First(F) ==
            IF F = {} THEN NoMatch ELSE [CurlRestAt(content, Min(F)) EXCEPT !.start = p]
    IN  IF /\ LowerChar(CharAt(content, p)) = "c"
           /\ Lower(Slice(content, p, p + 3)) = "curl"
           /\ IsSpace(CharAt(content, p + 4))
        THEN First({f \in (p + 5)..Len(content) : CurlRestAt(content, f).end > 0})
        ELSE NoMatch
RECURSIVE CurlMatches(_, _)
\* CURL_PATTERN.finditer(content)
CurlMatches(content, from) ==
    LET Rest(m) == <<m>> \o CurlMatches(content, m.end + 1)
        First(P) == IF P = {} THEN <<>> ELSE Rest(CurlMatchAt(content, Min(P)))
    IN  First({p \in from..Len(content) : CurlMatchAt(content, p).end > 0})

\* Operation(method, path, ...) with the dataclass defaults
Operation(method, path, description, examples, parameters_text, source_url) ==
    [method |-> method, path |-> path, summary |-> "", description |-> description,
     examples |-> examples, parameters_text |-> parameters_text,
     source_url |-> source_url]
OpKey(op) == <<op.method, op.path>>

RECURSIVE LastGoodLine(_)
\* the loop over reversed(lines) (312-316): the last line that, stripped, is
\* non-empty, no heading and longer than 10
LastGoodLine(lines) ==
    LET Check(line) ==
            IF line # "" /\ ~StartsWith(line, "#") /\ Len(line) > 10 THEN line
            ELSE LastGoodLine(SubSeq(lines, 1, Len(lines) - 1))
    IN  IF lines = <<>> THEN "" ELSE Check(Strip(lines[Len(lines)]))
\* the body of the first loop (287-326) for one match; acc = [operations,
\* seen_ops]
HttpStep(match, method, path, content, source_url, acc) ==
    IF ~StartsWith(path, "/") \/ Len(path) < 2 THEN acc
    ELSE IF <<method, path>> \in acc.seen_ops THEN acc
    ELSE [operations |->
              Append(acc.operations,
                     Operation(method, path,
                               LastGoodLine(SplitOn(Strip(Slice(content, match.start - 500,
                                                                match.start - 1)), "\n")),
                               <<>>,
                               Slice(content, match.start - 500, match.end + 2000),
                               source_url)),
          seen_ops |-> acc.seen_ops \cup {<<method, path>>}]
RECURSIVE HttpPass(_, _, _, _)
\* the first loop (286-326)
HttpPass(matches, content, source_url, acc) ==
    IF matches = <<>> THEN acc
    ELSE HttpPass(Tail(matches), content, source_url,
                  HttpStep(Head(matches), Upper(Head(matches).g1),
                           RStripChars(Head(matches).g2, {".", ",", ";", ":", ")"}),
                           content, source_url, acc))
\* the full cURL command (344-349): from rfind("curl", 0, match.start() + 10)
\* to find("\n\n", match.end()), or to match.end() + 500
CurlExample(content, match, curl_start, blank) ==
    Strip(Slice(content, curl_start, IF blank = 0 THEN match.end + 500 ELSE blank - 1))
\* the body of the second loop (330-358) for one match
CurlStep(match, method, path, curl_start, content, source_url, acc) ==
    IF path = "" \/ path = "/" THEN acc
    ELSE IF <<method, path>> \in acc.seen_ops THEN acc
    ELSE [operations |->
              IF curl_start = 0 THEN acc.operations
              ELSE Append(acc.operations,
                          Operation(method, path, "",
                                    << CurlExample(content, match, curl_start,
                                                   Find(content, "\n\n", match.end + 1)) >>,
                                    "", source_url)),
          seen_ops |-> acc.seen_ops \cup {<<method, path>>}]
RECURSIVE CurlPass(_, _, _, _)
\* the second loop (329-358)
CurlPass(matches, content, source_url, acc) ==
    IF matches = <<>> THEN acc
    ELSE CurlPass(Tail(matches), content, source_url,
                  CurlStep(Head(matches), Upper(Head(matches).g1),
                           urlparse(StripChars(Head(matches).g2, {"\"", "'"})).path,
                           RFind(content, "curl", Head(matches).start + 9),
                           content, source_url, acc))
extract_operations_from_content(content, source_url) ==
    CurlPass(CurlMatches(content, 1), content, source_url,
             HttpPass(HttpMatches(content, 1), content, source_url,
                      [operations |-> <<>>, seen_ops |-> {}])).operations


(***************************************************************************)
(* detect_api_base_url (471-495)                                           *)
(***************************************************************************)
HostChars == "abcdefghijklmnopqrstuvwxyzABCDEFGHIJKLMNOPQRSTUVWXYZ0123456789.-"
HostCharSet == CharsOf(HostChars)
IsHostChar(c) == c \in HostCharSet
\* the position after https?:// matched at p (case-sensitive), 0 when no match
AfterScheme(s, p) ==
    IF Slice(s, p, p + 7) = "https://" THEN p + 8
    ELSE IF Slice(s, p, p + 6) = "http://" THEN p + 7
    ELSE 0
\* the end of the optional (?:/v\d+)? after position e; d is the end of \d+
OptVersionEnd(s, e) ==
    LET Digits1(d) == IF Slice(s, e + 1, e + 2) = "/v" /\ d >= e + 3 THEN d ELSE e
    IN  Digits1(RunEnd(s, e + 3, IsDigit))
\* the end of the match of pattern k (1, 2 or 3 of the list patterns) at p, 0
\* when it does not match there; a is the position after the scheme, h the end
\* of the host run.  The host run is greedy and the regex engine gives back
\* characters only when the rest fails; the rest of patterns 2 and 3 starts
\* with "/", which no host character is, so giving back never helps
BasePatternEndAt(k, s, p) ==
    LET Versioned(h, v) == IF v > h THEN v ELSE 0
        Host(a, h) ==
            IF k = 1
            THEN (IF Slice(s, a, a + 3) = "api." /\ h >= a + 4 THEN OptVersionEnd(s, h) ELSE 0)
            ELSE IF k = 2
            THEN (IF h >= a /\ Slice(s, h + 1, h + 4) = "/api"
                  THEN OptVersionEnd(s, h + 4) ELSE 0)
            ELSE (IF h >= a THEN Versioned(h, OptVersionEnd(s, h)) ELSE 0)
        Scheme(a) ==
            IF a = 0 THEN 0
            ELSE Host(a, RunEnd(s, IF k = 1 THEN a + 4 ELSE a, IsHostChar))
    IN  IF CharAt(s, p) # "h" THEN 0 ELSE Scheme(AfterScheme(s, p))
RECURSIVE FindAll(_, _, _)
\* re.findall(patterns[k], combined)
FindAll(k, s, from) ==
    LET Rest(p, e) == <<Slice(s, p, e)>> \o FindAll(k, s, e + 1)
        First(P) == IF P = {} THEN <<>> ELSE Rest(Min(P), BasePatternEndAt(k, s, Min(P)))
    IN  First({p \in from..Len(s) : BasePatternEndAt(k, s, p) > 0})
\* Counter(matches).most_common(1)[0][0]: the most frequent match, the one met
\* first among equally frequent ones
MostCommon(matches) ==
    LET count(x) == Cardinality({i \in 1..Len(matches) : matches[i] = x})
        Pick(best) == matches[Min({i \in 1..Len(matches) : count(matches[i]) = best})]
    IN  Pick(Max({count(matches[i]) : i \in 1..Len(matches)}))
\* the loop over patterns (482-491) from pattern k on, then the fallback
RECURSIVE FirstPattern(_, _, _)
FirstPattern(k, combined, dom) ==
    LET Try(matches) ==
            IF matches # <<>> THEN MostCommon(matches)
            ELSE FirstPattern(k + 1, combined, dom)
    IN  IF k > 3 THEN "https://api." \o Replace(urlparse(dom).netloc, "www.", "")
        ELSE Try(FindAll(k, combined, 1))
detect_api_base_url(parts, dom) == FirstPattern(1, JoinWith(parts, "\n"), dom)

(***************************************************************************)
(* scrape_documentation: the finishing pass (441-468)                      *)
(***************************************************************************)
RECURSIVE DedupLoop(_, _, _)
\* the loop 444-448: the first Operation of every (method, path) key
DedupLoop(ops, seen, unique_operations) ==
    IF ops = <<>> THEN unique_operations
    ELSE IF OpKey(Head(ops)) \in seen
    THEN DedupLoop(Tail(ops), seen, unique_operations)
    ELSE DedupLoop(Tail(ops), seen \cup {OpKey(Head(ops))},
                   Append(unique_operations, Head(ops)))
\* a finishing pass that keeps every Operation
KeepAll(ops) == ops
Deduplicate(ops) == DedupLoop(ops, {}, <<>>)
\* an order that compares the method before the path
MethodFirstLess(a, b) ==
    \/ StrLess(a.method, b.method)
    \/ a.method = b.method /\ StrLess(a.path, b.path)
\* (a.path, a.method) < (b.path, b.method), the tuple order of the sort key
SortKeyLess(a, b) ==
    \/ StrLess(a.path, b.path)
    \/ a.path = b.path /\ StrLess(a.method, b.method)
RECURSIVE InsertOperation(_, _)
\* op inserted after the entries whose key is not greater than its own
InsertOperation(sorted, op) ==
    IF sorted = <<>> THEN <<op>>
    ELSE IF SortKeyLess(op, Head(sorted)) THEN <<op>> \o sorted
    ELSE <<Head(sorted)>> \o InsertOperation(Tail(sorted), op)
RECURSIVE SortOperations(_)
\* unique_operations.sort(key=lambda op: (op.path, op.method)): stable, ascending
SortOperations(ops) ==
    IF ops = <<>> THEN <<>>
    ELSE InsertOperation(SortOperations(SubSeq(ops, 1, Len(ops) - 1)), ops[Len(ops)])
\* the ScrapingResult built at 462-468
ScrapingResult ==
    [operations |-> SortOperations(Deduplicate(all_operations)),
     base_url |-> detect_api_base_url(markdown_parts, domain),
     pages_scraped |-> Cardinality(visited),
     raw_markdown |-> JoinWith(markdown_parts, "\n"),
     auth_content |-> JoinWith(auth_content_parts, "\n\n---\n\n")]

(***************************************************************************)
(* scrape_page (362-423)                                                   *)
(***************************************************************************)
\* urljoin(page_url, href) at 251 and 265 raises for an anchor of the page: the
\* second loop joins the href of every anchor, so any such anchor raises in
\* one loop or the other
LinksRaise(soup) ==
    \E i \in 1..Len(soup.anchors) : UrlRaises(soup.anchors[i].href)
\* urlparse(url_match.strip(...)) at 335 raises for a cURL match of the content
OperationsRaise(content) ==
    LET Some(matches) ==
            \E i \in 1..Len(matches) :
                UrlRaises(StripChars(matches[i].g2, {"\"", "'"}))
    IN  Some(CurlMatches(content, 1))
\* scrape_page raises an exception that no except clause of it catches:
\* neither call is inside a try block
PageRaises(response) ==
    /\ response.kind = "ok"
    /\ \/ LinksRaise(response.soup)
       \/ OperationsRaise(IF response.convert_ok THEN response.markdown
                          ELSE response.text)
\* what one call appends to the enclosing collections, and what it returns
NoEffect == [links |-> <<>>, operations |-> <<>>, markdown_parts |-> <<>>,
             auth_content_parts |-> <<>>]
\* the auth content collected for one page (413-421)
AuthPart(page_url, markdown, auth_sections) ==
    IF is_auth_related_url(page_url)
    THEN << "# Auth Source: " \o page_url \o "\n\n" \o markdown >>
    ELSE IF auth_sections # ""
    THEN << "# Auth Section from: " \o page_url \o "\n\n" \o auth_sections >>
    ELSE <<>>
\* the block under "if markdown:" (404-421)
PageContent(page_url, markdown, links_to_follow) ==
    IF markdown = "" THEN [NoEffect EXCEPT !.links = links_to_follow]
    ELSE [links |-> links_to_follow,
          operations |-> extract_operations_from_content(markdown, page_url),
          markdown_parts |->
              << "# Source: " \o page_url \o "\n\n" \o markdown \o "\n\n---\n" >>,
          auth_content_parts |->
              AuthPart(page_url, markdown,
                       IF is_auth_related_url(page_url) THEN ""
                       ELSE extract_auth_sections(markdown))]
\* the body after the first try block (383-423), for a response that was
\* accepted: markdown is convert_stream's text, or soup.get_text when it raises
ProcessResponse(page_url, response, seen) ==
    PageContent(page_url,
                IF response.convert_ok THEN response.markdown ELSE response.text,
                extract_navigation_links(response.soup, page_url, seen))
\* a scrape_page that omits raise_for_status(): only a transport error returns
\* early
scrape_page_unchecked(page_url, response, seen) ==
    IF response.kind = "timeout" THEN NoEffect
    ELSE ProcessResponse(page_url, response, seen)
\* httpx.get raises on a transport error or timeout, raise_for_status() on a
\* non-success status; both are httpx.HTTPError and return []
scrape_page(page_url, response, seen) ==
    IF response.kind # "ok" THEN NoEffect
    ELSE ProcessResponse(page_url, response, seen)


(***************************************************************************)
(* The crawl: inputs and environment                                       *)
(***************************************************************************)
\* the largest page budget max_pages the model tries
MaxPages == 3
\* the start URLs tried: a plain one, and one that carries a query string
SeedUrls == {"https://d.io/docs/api", "https://d.io/docs/api?v=2"}
Anchor(href, text) == [href |-> href, text |-> text]
NoSoup == [anchors |-> <<>>, nav_elements |-> <<>>]
\* what the site may answer to a GET: any of these for any URL, at any time
Responses ==
    { \* an index page: a sidebar found twice by find_all (tag and class), a
      \* duplicate of a sidebar link and a link back to the start page in the body
      [kind |-> "ok",
       soup |-> [anchors |-> << Anchor("get-user", "Get user"),
                                Anchor("/guide", "Guide"),
                                Anchor("/pricing", "Plans"),
                                Anchor("get-user", "Get user"),
                                Anchor("/docs/api", "Home") >>,
                 nav_elements |-> << <<1, 2, 3>>, <<1, 2, 3>> >>],
       convert_ok |-> TRUE,
       markdown |-> "## Auth\nUse a token\nGET /v1/users\n## Errors\nDELETE /v2/x.",
       text |-> "Use a token"],
      \* a reference page: the guide in the navigation, the endpoint page only in
      \* the body; markdown conversion raises
      [kind |-> "ok",
       soup |-> [anchors |-> << Anchor("/guide", "Guide"),
                                Anchor("get-user", "Get user"),
                                Anchor("/get-pricing", "API"),
                                Anchor("/plans", "Pricing guide"),
                                Anchor("//evil.io/api", "API"),
                                Anchor("http:evil.io/api", "API") >>,
                 nav_elements |-> << <<1>> >>],
       convert_ok |-> FALSE,
       markdown |-> "",
       text |-> "POST /v1/users\ncurl -X POST https://api.d.io/v1/users\nGET /v1/users"],
      \* a page without text: only a link back to the documentation root
      [kind |-> "ok",
       soup |-> [anchors |-> << Anchor("/docs/api", "Home") >>, nav_elements |-> <<>>],
       convert_ok |-> TRUE, markdown |-> "", text |-> ""],
      \* a 404 answer with an error page
      [kind |-> "http_error",
       soup |-> [anchors |-> << Anchor("/docs/help", "Docs") >>,
                 nav_elements |-> << <<1>> >>],
       convert_ok |-> TRUE,
       markdown |-> "# Auth\nGET /v1/missing",
       text |-> ""],
      \* a page with a link whose host part opens a bracket and never closes it
      [kind |-> "ok",
       soup |-> [anchors |-> << Anchor("/guide", "Guide"), Anchor("//[x", "Docs") >>,
                 nav_elements |-> <<>>],
       convert_ok |-> TRUE, markdown |-> "GET /v1/users", text |-> ""],
      \* a page without links whose text shows a cURL command with such a URL
      [kind |-> "ok", soup |-> NoSoup, convert_ok |-> TRUE,
       markdown |-> "Example\ncurl -X GET https://[x/v1", text |-> ""],
      \* no answer within the timeout
      [kind |-> "timeout", soup |-> NoSoup, convert_ok |-> TRUE, markdown |-> "",
       text |-> ""] }

(***************************************************************************)
(* scrape_documentation: the crawl loop (426-439) and the return            *)
(***************************************************************************)
RECURSIVE InsertPageBeforeEqual(_, _)
\* entry inserted before the entries whose priority is not lower than its own
InsertPageBeforeEqual(sorted, entry) ==
    IF sorted = <<>> THEN <<entry>>
    ELSE IF entry[1] <= Head(sorted)[1] THEN <<entry>> \o sorted
    ELSE <<Head(sorted)>> \o InsertPageBeforeEqual(Tail(sorted), entry)
RECURSIVE InsertPage(_, _)
\* entry inserted after the entries whose priority is not greater than its own
InsertPage(sorted, entry) ==
    IF sorted = <<>> THEN <<entry>>
    ELSE IF entry[1] < Head(sorted)[1] THEN <<entry>> \o sorted
    ELSE <<Head(sorted)>> \o InsertPage(Tail(sorted), entry)
RECURSIVE SortPages(_)
\* pages_to_visit.sort(key=lambda x: x[0]): stable, ascending
SortPages(q) ==
    IF q = <<>> THEN <<>>
    ELSE InsertPage(SortPages(SubSeq(q, 1, Len(q) - 1)), q[Len(q)])
\* the while condition
LoopCondition == pages_to_visit # <<>> /\ Cardinality(visited) < max_pages
\* _, current_url = pages_to_visit.pop(0) after the sort
current_url == SortPages(pages_to_visit)[1][2]
NoResult == [operations |-> <<>>, base_url |-> "", pages_scraped |-> -1,
             raw_markdown |-> "", auth_content |-> ""]
IdleStep == [kind |-> "none", url |-> "", anchors |-> <<>>, entry |-> <<>>,
             frontier |-> <<>>]
\* the variables of the other entry points, which a crawl leaves alone
others == <<heap, operations, merged_out, heap_before, auth_in, auth_out,
            link_in, priority_out, base_in, base_out>>

CrawlInit ==
    /\ seed_url \in SeedUrls
    /\ max_pages \in 0..MaxPages
    /\ visited = {}
    /\ pages_to_visit = << <<0, seed_url, 1>> >>
    /\ inserted = 1
    /\ all_operations = <<>>
    /\ markdown_parts = <<>>
    /\ auth_content_parts = <<>>
    /\ pc = "loop"
    /\ result = NoResult
    /\ fetched = <<>>
    /\ last_step = IdleStep
    /\ enqueued = {}

\* an iteration that pops a URL already visited: continue
LoopSkip ==
    /\ pc = "loop"
    /\ LoopCondition
    /\ current_url \in visited
    /\ pages_to_visit' = Tail(SortPages(pages_to_visit))
    /\ last_step' = [kind |-> "skip", url |-> current_url, anchors |-> <<>>,
                      entry |-> SortPages(pages_to_visit)[1],
                      frontier |-> pages_to_visit]
    /\ UNCHANGED <<seed_url, max_pages, visited, all_operations, markdown_parts,
                   auth_content_parts, pc, result, fetched, enqueued, inserted>>
    /\ UNCHANGED others

\* the frontier entry (priority, link) of a link that scrape_page returned,
\* numbered n
FrontierEntry(e, n) == <<e.priority, e.url, n>>
\* the effect of scrape_page(page_url) and of the loop 437-439 on the state;
\* page is what scrape_page appended and returned, new_links the returned
\* links that pass "if link not in visited"; last_step keeps what the site
\* answered
Enqueue(page_url, response, page, new_links) ==
    /\ visited' = visited \cup {page_url}
    /\ fetched' = Append(fetched, page_url)
    /\ all_operations' = all_operations \o page.operations
    /\ markdown_parts' = markdown_parts \o page.markdown_parts
    /\ auth_content_parts' = auth_content_parts \o page.auth_content_parts
    /\ pages_to_visit' =
           Tail(SortPages(pages_to_visit))
           \o [i \in 1..Len(new_links) |-> FrontierEntry(new_links[i], inserted + i)]
    /\ inserted' = inserted + Len(new_links)
    /\ enqueued' =
           enqueued \cup {[priority |-> e.priority, url |-> e.url, href |-> e.href,
                           text |-> e.text, in_nav |-> e.in_nav, page |-> page_url] :
                          e \in SeqToSet(new_links)}
    /\ last_step' = [kind |-> response.kind, url |-> page_url,
                      anchors |-> response.soup.anchors,
                      entry |-> SortPages(pages_to_visit)[1],
                      frontier |-> pages_to_visit]
Scraped(page_url, response, page) ==
    Enqueue(page_url, response, page,
            SelectSeq(page.links, LAMBDA e : e.url \notin visited \cup {page_url}))
\* an iteration that pops an unvisited URL and scrapes it; response is what the
\* site answers
LoopScrape(response) ==
    /\ pc = "loop"
    /\ LoopCondition
    /\ current_url \notin visited
    /\ ~PageRaises(response)
    /\ Scraped(current_url, response,
               scrape_page(current_url, response, visited \cup {current_url}))
    /\ UNCHANGED <<seed_url, max_pages, pc, result>>
    /\ UNCHANGED others

\* an iteration that pops an unvisited URL whose scrape_page raises: the
\* exception leaves scrape_page, the loop and scrape_documentation, which
\* returns nothing.  The page's markdown was appended (405) when it is the
\* operation extractor that raises
LoopRaise(response) ==
    /\ pc = "loop"
    /\ LoopCondition
    /\ current_url \notin visited
    /\ PageRaises(response)
    /\ visited' = visited \cup {current_url}
    /\ fetched' = Append(fetched, current_url)
    /\ pages_to_visit' = Tail(SortPages(pages_to_visit))
    /\ markdown_parts' =
           IF LinksRaise(response.soup) THEN markdown_parts
           ELSE Append(markdown_parts,
                       "# Source: " \o current_url \o "\n\n"
                       \o (IF response.convert_ok THEN response.markdown
                           ELSE response.text)
                       \o "\n\n---\n")
    /\ last_step' = [kind |-> "raised", url |-> current_url,
                      anchors |-> response.soup.anchors,
                      entry |-> SortPages(pages_to_visit)[1],
                      frontier |-> pages_to_visit]
    /\ pc' = "raised"
    /\ UNCHANGED <<seed_url, max_pages, all_operations, auth_content_parts, result,
                   enqueued, inserted>>
    /\ UNCHANGED others

\* the loop condition fails: the finishing pass and the return
Return ==
    /\ pc = "loop"
    /\ ~LoopCondition
    /\ result' = ScrapingResult
    /\ pc' = "done"
    /\ UNCHANGED <<seed_url, max_pages, visited, pages_to_visit, all_operations,
                   markdown_parts, auth_content_parts, fetched, last_step, enqueued,
                   inserted>>
    /\ UNCHANGED others

(***************************************************************************)
(* Specification of one call of scrape_documentation                       *)
(***************************************************************************)
vars == <<seed_url, max_pages, visited, pages_to_visit, all_operations, markdown_parts,
          auth_content_parts, pc, result, fetched, last_step, enqueued, inserted,
          heap, operations, merged_out, heap_before, auth_in, auth_out,
          link_in, priority_out, base_in, base_out>>
\* the values the variables of get_link_priority and detect_api_base_url called
\* on their own keep while another entry point runs
PureIdle ==
    /\ link_in = <<>>
    /\ priority_out = 0
    /\ base_in = <<>>
    /\ base_out = ""
pure_vars == <<link_in, priority_out, base_in, base_out>>
Init ==
    /\ CrawlInit
    /\ heap = <<>>
    /\ operations = <<>>
    /\ merged_out = <<>>
    /\ heap_before = <<>>
    /\ auth_in = ""
    /\ auth_out = ""
    /\ PureIdle
Next ==
    \/ LoopSkip
    \/ \E response \in Responses : LoopScrape(response)
    \/ \E response \in Responses : LoopRaise(response)
    \/ Return
Spec == Init /\ [][Next]_vars


(***************************************************************************)
(* merge_operations (498-518)                                               *)
(***************************************************************************)
\* Operation objects live in heap, a function from object identities to field
\* values; a list of Operations is a sequence of identities, so one object may
\* be held twice.  merged, the dict of the function, is the sequence of its
\* (key, identity) items in insertion order.
MergedRef(merged, key) ==
    merged[Min({i \in 1..Len(merged) : merged[i][1] = key})][2]
\* an else branch that extends the examples and keeps the description and the
\* parameters text of the first Operation
MergeExamplesOnly(existing, op) ==
    [existing EXCEPT !.examples = existing.examples \o op.examples]
\* the else branch (508-516): the value of existing after it, from the values
\* of existing and op before it.  When op is existing itself, extend doubles
\* the list and the two other updates do nothing, which is what this computes
\* for equal values
MergeInto(existing, op) ==
    [existing EXCEPT
        !.examples = existing.examples \o op.examples,
        !.description =
            IF Len(op.description) > Len(existing.description)
            THEN op.description ELSE existing.description,
        !.parameters_text =
            IF op.parameters_text # "" /\ ~Contains(op.parameters_text, existing.parameters_text)
            THEN existing.parameters_text \o "\n\n" \o op.parameters_text
            ELSE existing.parameters_text]
\* the body of the loop (502-516) for the object ref; st = [heap, merged]
MergeStep(st, ref, key) ==
    IF \A i \in 1..Len(st.merged) : st.merged[i][1] # key
    THEN [heap |-> st.heap, merged |-> Append(st.merged, <<key, ref>>)]
    ELSE [heap |-> [st.heap EXCEPT ![MergedRef(st.merged, key)] =
                        MergeInto(st.heap[MergedRef(st.merged, key)], st.heap[ref])],
          merged |-> st.merged]
RECURSIVE MergeLoop(_, _)
MergeLoop(ops, st) ==
    IF ops = <<>> THEN st
    ELSE MergeLoop(Tail(ops), MergeStep(st, Head(ops), OpKey(st.heap[Head(ops)])))
\* merge_operations(ops) called with the heap h: the heap after the call and
\* the returned list(merged.values())
merge_operations(ops, h) ==
    LET Values(st) == [heap |-> st.heap,
                       out |-> [i \in 1..Len(st.merged) |-> st.merged[i][2]]]
    IN  Values(MergeLoop(ops, [heap |-> h, merged |-> <<>>]))

\* the longest argument list tried
MaxOps == 2
\* the objects that exist when merge_operations is called
ObjectIds == {1, 2}
\* the Operation values an object may hold: two keys, descriptions of equal and
\* of different length, parameter texts of which one contains another
OperationValues ==
    { Operation("GET", path, description, examples, parameters_text, "u") :
        path \in {"/a", "/b"}, description \in {"ab", "cd", "xyz"},
        examples \in {<<>>, <<"e1">>, <<"e2", "e3">>},
        parameters_text \in {"", "p", "pq"} }
RECURSIVE RefLists(_)
\* the lists of at most n object identities
RefLists(n) ==
    IF n = 0 THEN {<<>>}
    ELSE RefLists(n - 1) \cup {Append(l, r) : l \in {x \in RefLists(n - 1) : Len(x) = n - 1},
                                              r \in ObjectIds}
\* the values the crawl's variables keep while another entry point runs
CrawlIdle ==
    /\ seed_url = ""
    /\ max_pages = 0
    /\ visited = {}
    /\ pages_to_visit = <<>>
    /\ all_operations = <<>>
    /\ markdown_parts = <<>>
    /\ auth_content_parts = <<>>
    /\ result = NoResult
    /\ fetched = <<>>
    /\ last_step = IdleStep
    /\ enqueued = {}
    /\ inserted = 0
crawl_vars == <<seed_url, max_pages, visited, pages_to_visit, all_operations,
                markdown_parts, auth_content_parts, result, fetched, last_step, enqueued,
                inserted>>
MergeInit ==
    /\ CrawlIdle
    /\ pc = "merge"
    /\ heap \in [ObjectIds -> OperationValues]
    /\ operations \in RefLists(MaxOps)
    /\ merged_out = <<>>
    /\ heap_before = heap
    /\ auth_in = ""
    /\ auth_out = ""
    /\ PureIdle
\* one call merge_operations(operations)
MergeCall ==
    /\ pc = "merge"
    /\ heap_before' = heap
    /\ heap' = merge_operations(operations, heap).heap
    /\ merged_out' = merge_operations(operations, heap).out
    /\ pc' = "merged"
    /\ UNCHANGED <<operations, auth_in, auth_out>>
    /\ UNCHANGED crawl_vars
    /\ UNCHANGED pure_vars
MergeNext == MergeCall
MergeSpec == MergeInit /\ [][MergeNext]_vars

(***************************************************************************)
(* extract_auth_sections called on its own                                  *)
(***************************************************************************)
\* the longest document tried, in lines
MaxLines == 3
\* the lines a document is made of: headings inside and outside the
\* authentication vocabulary, at several levels, with and without white space
\* after the markers, and text
DocLines ==
    {"## Authentication", "##Authentication", "### Details", "## Rate Limits",
     "# OAuth", "body", ""}
RECURSIVE Documents(_)
\* the documents of exactly n lines
Documents(n) ==
    IF n = 0 THEN {""}
    ELSE IF n = 1 THEN DocLines
    ELSE {d \o "\n" \o l : d \in Documents(n - 1), l \in DocLines}
AuthInit ==
    /\ CrawlIdle
    /\ pc = "auth"
    /\ auth_in \in UNION {Documents(n) : n \in 0..MaxLines}
    /\ auth_out = ""
    /\ heap = <<>>
    /\ operations = <<>>
    /\ merged_out = <<>>
    /\ heap_before = <<>>
    /\ PureIdle
\* one call extract_auth_sections(auth_in)
AuthCall ==
    /\ pc = "auth"
    /\ auth_out' = extract_auth_sections(auth_in)
    /\ pc' = "extracted"
    /\ UNCHANGED <<auth_in, heap, operations, merged_out, heap_before>>
    /\ UNCHANGED crawl_vars
    /\ UNCHANGED pure_vars
AuthNext == AuthCall
AuthSpec == AuthInit /\ [][AuthNext]_vars


(***************************************************************************)
(* Properties of scrape_documentation                                       *)
(***************************************************************************)
\* scheme + host + path of a URL, query and fragment dropped: the form in which
\* extract_navigation_links stores links
NormalizedUrl(u) == SchemeHostPath(urlparse(u))
NormalizedFetched == {NormalizedUrl(fetched[i]) : i \in 1..Len(fetched)}

\* C1: within one call of scrape_documentation no two fetches have the same
\* normalized URL (scheme, host and path), whatever the seed and the links
C1_NoNormalizedUrlFetchedTwice ==
    \A i, j \in 1..Len(fetched) :
        i # j => NormalizedUrl(fetched[i]) # NormalizedUrl(fetched[j])

\* C2: the returned pages_scraped is at most max_pages and equals the number
\* of distinct normalized URLs for which a fetch was attempted
C2_PagesScrapedCountsNormalizedUrls ==
    pc = "done" =>
        /\ result.pages_scraped <= max_pages
        /\ result.pages_scraped = Cardinality(NormalizedFetched)

\* C3: the returned operations hold no two entries with the same
\* (method, path) key
C3_NoDuplicateKeys ==
    pc = "done" =>
        \A i, j \in 1..Len(result.operations) :
            i # j => OpKey(result.operations[i]) # OpKey(result.operations[j])
\* a crawl has returned after the same operation was collected from two pages
C3_Witness ==
    /\ pc = "done"
    /\ \E i, j \in 1..Len(all_operations) :
           /\ i < j
           /\ OpKey(all_operations[i]) = OpKey(all_operations[j])
           /\ all_operations[i].source_url # all_operations[j].source_url
    /\ Len(result.operations) >= 2

\* C4: an iteration whose fetch fails (time-out, or non-success status) adds no
\* operation, no markdown, no auth text and no frontier entry: the frontier
\* only loses the popped entry, and the loop goes on
C4_FailedFetchContributesNothing ==
    [][ (Len(fetched') > Len(fetched) /\ last_step'.kind \in {"http_error", "timeout"})
        => /\ all_operations' = all_operations
           /\ markdown_parts' = markdown_parts
           /\ auth_content_parts' = auth_content_parts
           /\ enqueued' = enqueued
           /\ pages_to_visit' = Tail(SortPages(pages_to_visit))
           /\ visited' = visited \cup {last_step'.url}
           /\ pc' = "loop" ]_vars
\* a fetch has just been answered by an error page that holds links and an
\* operation, after a page that contributed operations, with entries left on
\* the frontier
C4_Witness ==
    /\ pc = "loop"
    /\ last_step.kind = "http_error"
    /\ last_step.anchors # <<>>
    /\ all_operations # <<>>
    /\ pages_to_visit # <<>>

\* C5: no link whose href or anchor text contains "pricing" enters the
\* frontier, whatever else matches the link and wherever it was found
C5_PricingNeverEnqueued ==
    \A e \in enqueued :
        ~Contains("pricing", Lower(e.href)) /\ ~Contains("pricing", Lower(e.text))
\* a page has just been scraped that held a link with "pricing" and the
\* endpoint keyword "get-" in its href, and a link with "pricing" in its text,
\* and other links of that page were enqueued
C5_Witness ==
    /\ last_step.kind = "ok"
    /\ \E i \in 1..Len(last_step.anchors) :
           /\ Contains("pricing", Lower(last_step.anchors[i].href))
           /\ Contains("get-", Lower(last_step.anchors[i].href))
    /\ \E i \in 1..Len(last_step.anchors) :
           /\ Contains("pricing", Lower(last_step.anchors[i].text))
           /\ ~Contains("pricing", Lower(last_step.anchors[i].href))
    /\ \E e \in enqueued : e.page = last_step.url

\* the href contains "guide" and no other navigation keyword, no endpoint
\* keyword and no skip keyword
GuideOnly(href) ==
    /\ Contains("guide", Lower(href))
    /\ KeywordHits(NAV_KEYWORDS, Lower(href), "") = {10}
    /\ KeywordHits(ENDPOINT_KEYWORDS, Lower(href), "") = {}
    /\ KeywordHits(SKIP_KEYWORDS, Lower(href), "") = {}
\* C6 as stated: of any two enqueued links, one with "get-user" in its href
\* and one with only "guide" in its href, the first entered the frontier with
\* the strictly lower priority number
C6_GetUserBeforeGuide ==
    \A a, b \in enqueued :
        (Contains("get-user", Lower(a.href)) /\ GuideOnly(b.href))
            => a.priority < b.priority
\* C6: of any two enqueued links found in the same kind of place (both inside
\* a navigation element, or both outside), one with "get-user" in its href and
\* one with only "guide" in its href and no endpoint keyword in its text, the
\* first entered the frontier with the strictly lower priority number
C6_GetUserBeforeGuideSamePlace ==
    \A a, b \in enqueued :
        ( /\ Contains("get-user", Lower(a.href))
          /\ GuideOnly(b.href)
          /\ KeywordHits(ENDPOINT_KEYWORDS, "", Lower(b.text)) = {}
          /\ a.in_nav = b.in_nav )
            => a.priority < b.priority
\* a get-user link and a guide link of the same page were both enqueued from
\* its navigation
C6_Witness ==
    \E a, b \in enqueued :
        /\ Contains("get-user", Lower(a.href))
        /\ GuideOnly(b.href)
        /\ KeywordHits(ENDPOINT_KEYWORDS, "", Lower(b.text)) = {}
        /\ a.in_nav /\ b.in_nav
        /\ a.page = b.page

(***************************************************************************)
(* Properties of merge_operations                                           *)
(***************************************************************************)
\* C7: merge_operations of two Operations with the same key returns one
\* Operation; its description is one of the two descriptions and no shorter
\* than either, its examples are the first's followed by the second's
C7_MergeTwoSameKey ==
    ( /\ pc = "merged"
      /\ Len(operations) = 2
      /\ OpKey(heap_before[operations[1]]) = OpKey(heap_before[operations[2]]) )
    => /\ Len(merged_out) = 1
       /\ heap[merged_out[1]].description \in
              {heap_before[operations[1]].description,
               heap_before[operations[2]].description}
       /\ Len(heap[merged_out[1]].description)
              >= Len(heap_before[operations[1]].description)
       /\ Len(heap[merged_out[1]].description)
              >= Len(heap_before[operations[2]].description)
       /\ heap[merged_out[1]].examples =
              heap_before[operations[1]].examples \o heap_before[operations[2]].examples
\* two distinct Operations with the same key were merged, the second with the
\* longer description, both with examples
C7_Witness ==
    /\ pc = "merged"
    /\ Len(operations) = 2
    /\ operations[1] # operations[2]
    /\ OpKey(heap_before[operations[1]]) = OpKey(heap_before[operations[2]])
    /\ Len(heap_before[operations[2]].description)
           > Len(heap_before[operations[1]].description)
    /\ heap_before[operations[1]].examples # <<>>
    /\ heap_before[operations[2]].examples # <<>>

\* C8: merge_operations is pure: every Operation object has the same value
\* after the call as before it
C8_MergeIsPure == pc = "merged" => heap = heap_before

(***************************************************************************)
(* Properties of the returned operations' order and of the auth extractor   *)
(***************************************************************************)
\* C9: the returned operations are in ascending order of (path, method)
C9_SortedByPathMethod ==
    pc = "done" =>
        \A i \in 1..(Len(result.operations) - 1) :
            \/ StrLess(result.operations[i].path, result.operations[i + 1].path)
            \/ /\ result.operations[i].path = result.operations[i + 1].path
               /\ ~StrLess(result.operations[i + 1].method, result.operations[i].method)
\* a crawl has returned operations that were collected in another order than
\* the one returned
C9_Witness ==
    /\ pc = "done"
    /\ Len(result.operations) >= 3
    /\ result.operations # Deduplicate(all_operations)

\* the number of heading markers the matched heading starts with
MarkerCount(markdown, m) == RunEnd(markdown, m.start, IsHash) - m.start + 1
\* the text from the heading matched by m up to the next heading with at most
\* as many markers, or to the end, stripped
SectionToNextHeading(markdown, m) ==
    LET Section(N) ==
            Strip(Slice(markdown, m.start, IF N = {} THEN Len(markdown) ELSE Min(N) - 1))
        Level(level) ==
            Section({q \in (m.end + 1)..Len(markdown) : NextHeadingAt(markdown, q, level)})
    IN  Level(MarkerCount(markdown, m))
SectionsToNextHeading(markdown) ==
    LET Sections(matches) ==
            SelectSeq([i \in 1..Len(matches) |-> SectionToNextHeading(markdown, matches[i])],
                      LAMBDA x : x # "")
    IN  JoinWith(Sections(AuthHeadingMatches(markdown)), "\n\n---\n\n")
\* C10: for every heading that matches the authentication vocabulary
\* extract_auth_sections returns the text from that heading up to the next
\* heading with at most as many heading markers, or to the end of the document
C10_SectionSpansToNextHeading ==
    pc = "extracted" => auth_out = SectionsToNextHeading(auth_in)


(***************************************************************************)
(* Properties of the frontier                                               *)
(***************************************************************************)
\* C11: every iteration of the loop removes from the frontier one entry; no
\* entry of the frontier has a lower priority value, and none with the same
\* priority value was appended before it
C11_LowestPriorityEarliestFirst ==
    [][ pc' \in {"loop", "raised"} =>
          \E e \in SeqToSet(pages_to_visit) :
              /\ SeqToSet(pages_to_visit) \ SeqToSet(pages_to_visit') = {e}
              /\ \A f \in SeqToSet(pages_to_visit) :
                     e[1] < f[1] \/ (e[1] = f[1] /\ e[3] <= f[3]) ]_vars
\* an iteration has just removed an entry that was not the first of the list
\* while another entry with the same priority value, appended later, stayed
C11_Witness ==
    /\ pc = "loop"
    /\ last_step.kind \in {"ok", "skip", "http_error", "timeout"}
    /\ last_step.frontier[1] # last_step.entry
    /\ \E f \in SeqToSet(last_step.frontier) :
           f[1] = last_step.entry[1] /\ f[3] > last_step.entry[3]


(***************************************************************************)
(* Properties of the end of the crawl                                       *)
(***************************************************************************)
\* C12: the crawl ends only by returning, with the frontier empty or the
\* number of visited URLs at max_pages; nothing that happens while one page is
\* processed ends it or leaves scrape_documentation as an exception
C12_EndsOnlyByBudgetOrEmptyFrontier ==
    pc # "loop" =>
        /\ pc = "done"
        /\ pages_to_visit = <<>> \/ Cardinality(visited) >= max_pages


(***************************************************************************)
(* get_link_priority called on its own                                      *)
(***************************************************************************)
\* the start URLs tried: inside a directory, at the top level, without a path
PrioritySeeds == {"https://d.io/docs/api", "https://d.io/api", "https://d.io"}
\* hrefs and anchor texts that meet every rule alone and several rules at once
LinkHrefs ==
    {"/pricing", "/get-pricing", "get-user", "/docs/get-user", "/docs/guide", "/docs/x",
     "/guide", "/api/reference", "/x", "/Docs/x", "/docsify"}
LinkTexts == {"", "Pricing", "Create-token", "REST", "About"}
PriorityInit ==
    /\ seed_url \in PrioritySeeds
    /\ max_pages = 0
    /\ visited = {}
    /\ pages_to_visit = <<>>
    /\ all_operations = <<>>
    /\ markdown_parts = <<>>
    /\ auth_content_parts = <<>>
    /\ result = NoResult
    /\ fetched = <<>>
    /\ last_step = IdleStep
    /\ enqueued = {}
    /\ inserted = 0
    /\ pc = "priority"
    /\ link_in \in [href : LinkHrefs, text : LinkTexts]
    /\ priority_out = 0
    /\ base_in = <<>>
    /\ base_out = ""
    /\ heap = <<>>
    /\ operations = <<>>
    /\ merged_out = <<>>
    /\ heap_before = <<>>
    /\ auth_in = ""
    /\ auth_out = ""
\* one call get_link_priority(href, link_text) inside a crawl started at
\* seed_url
PriorityCall ==
    /\ pc = "priority"
    /\ priority_out' = get_link_priority(link_in.href, link_in.text)
    /\ pc' = "scored"
    /\ UNCHANGED <<link_in, base_in, base_out>>
    /\ UNCHANGED <<heap, operations, merged_out, heap_before, auth_in, auth_out>>
    /\ UNCHANGED crawl_vars
PriorityNext == PriorityCall
PrioritySpec == PriorityInit /\ [][PriorityNext]_vars

\* one of the keywords occurs in the href or in the anchor text, case ignored
MatchesAny(keywords, link) ==
    \E i \in 1..Len(keywords) :
        Contains(keywords[i], Lower(link.href)) \/ Contains(keywords[i], Lower(link.text))
\* the index, from 0, of the first keyword of the list that occurs
FirstMatch(keywords, link) ==
    Min({i \in 1..Len(keywords) : MatchesAny(<<keywords[i]>>, link)}) - 1
\* the directory prefix of the seed URL: its path up to the last "/"
SeedDirectory ==
    LET Cut(path, P) == IF P = {} THEN "" ELSE SubSeq(path, 1, Max(P) - 1)
        Of(path) == Cut(path, {k \in 1..Len(path) : SubSeq(path, k, k) = "/"})
    IN  Of(urlparse(seed_url).path)
\* the rules in their order, first match wins; sibling tells whether the
\* prefix rule applies to the link
RuleScore(link, sibling) ==
    IF MatchesAny(SKIP_KEYWORDS, link) THEN 999
    ELSE IF MatchesAny(ENDPOINT_KEYWORDS, link) THEN 1
    ELSE IF sibling THEN 5
    ELSE IF MatchesAny(NAV_KEYWORDS, link) THEN 10 + FirstMatch(NAV_KEYWORDS, link)
    ELSE 50
\* C13 as stated: skip keyword: rejected (999); else endpoint keyword: 1; else
\* the href starts with the seed's directory prefix: 5; else navigation
\* keyword: 10 + its index; else 50
C13_RulesInOrder ==
    pc = "scored" =>
        priority_out = RuleScore(link_in, StartsWith(link_in.href, SeedDirectory))
\* C13: the same order of rules, the prefix rule applying only when the seed's
\* directory prefix is not empty
C13_RulesInOrderNonEmptyPrefix ==
    pc = "scored" =>
        priority_out =
            RuleScore(link_in,
                      SeedDirectory # "" /\ StartsWith(link_in.href, SeedDirectory))
\* a link was scored that starts with the seed's non-empty directory prefix
\* and holds a navigation keyword, and no skip or endpoint keyword: of the two
\* rules that match, the earlier one decided
C13_Witness ==
    /\ pc = "scored"
    /\ SeedDirectory # ""
    /\ StartsWith(link_in.href, SeedDirectory)
    /\ MatchesAny(NAV_KEYWORDS, link_in)
    /\ ~MatchesAny(SKIP_KEYWORDS, link_in)
    /\ ~MatchesAny(ENDPOINT_KEYWORDS, link_in)
    /\ priority_out = 5


(***************************************************************************)
(* Properties of extract_navigation_links                                   *)
(***************************************************************************)
\* C14: a link enqueued from a navigation element has the score of
\* get_link_priority, a link enqueued from elsewhere on the page has that score
\* plus 20, and a URL enqueued from a navigation element of a page is not also
\* enqueued from that page with the raised score
C14_NavScoreElsewherePlus20 ==
    \A e \in enqueued :
        /\ e.in_nav => e.priority = get_link_priority(e.href, e.text)
        /\ ~e.in_nav => e.priority = get_link_priority(e.href, e.text) + 20
        /\ e.in_nav => \A f \in enqueued : (f.page = e.page /\ f.url = e.url) => f.in_nav
\* a page has just been scraped that holds the same link twice, the link was
\* enqueued from the navigation, and another link of the page was enqueued from
\* outside the navigation
C14_Witness ==
    /\ last_step.kind = "ok"
    /\ \E a, b \in enqueued :
           /\ a.page = last_step.url /\ b.page = last_step.url
           /\ a.in_nav /\ ~b.in_nav
           /\ \E i, j \in 1..Len(last_step.anchors) :
                  /\ i < j
                  /\ last_step.anchors[i] = Anchor(a.href, a.text)
                  /\ last_step.anchors[j] = Anchor(a.href, a.text)


\* C15: every URL that entered the frontier from a link of a page has the host
\* of the seed URL, and so has every URL fetched
C15_FrontierStaysOnSeedHost ==
    /\ \A e \in enqueued : urlparse(e.url).netloc = urlparse(seed_url).netloc
    /\ \A i \in 1..Len(fetched) : urlparse(fetched[i]).netloc = urlparse(seed_url).netloc


(***************************************************************************)
(* detect_api_base_url called on its own                                    *)
(***************************************************************************)
\* the values of domain tried: hosts with and without a leading "www.", and
\* with "www." further inside
BaseDomains ==
    {"https://d.io", "https://www.x.io", "https://www.awww.com", "https://docs.www.x.io",
     "http://wwww.x.io"}
\* the texts markdown_parts is made of: with a match of each pattern, with a
\* repeated match, and without any match
BaseTexts ==
    {"", "See https://api.x.io/v1 here", "base http://x.io/api",
     "https://x.io/v2 and https://x.io/v2", "GET /v1/users", "ftp://api.x.io"}
MarkdownPartLists == {<<>>} \cup {<<a>> : a \in BaseTexts} \cup {<<a, b>> : a, b \in BaseTexts}
BaseInit ==
    /\ CrawlIdle
    /\ pc = "base"
    /\ base_in \in [markdown_parts : MarkdownPartLists, domain : BaseDomains]
    /\ base_out = ""
    /\ link_in = <<>>
    /\ priority_out = 0
    /\ heap = <<>>
    /\ operations = <<>>
    /\ merged_out = <<>>
    /\ heap_before = <<>>
    /\ auth_in = ""
    /\ auth_out = ""
\* one call detect_api_base_url(markdown_parts, domain)
BaseCall ==
    /\ pc = "base"
    /\ base_out' = detect_api_base_url(base_in.markdown_parts, base_in.domain)
    /\ pc' = "based"
    /\ UNCHANGED <<base_in, link_in, priority_out>>
    /\ UNCHANGED <<heap, operations, merged_out, heap_before, auth_in, auth_out>>
    /\ UNCHANGED crawl_vars
BaseNext == BaseCall
BaseSpec == BaseInit /\ [][BaseNext]_vars

\* none of the three patterns has a match in the joined markdown
NoBasePattern(parts) ==
    \A k \in 1..3 : \A p \in 1..Len(JoinWith(parts, "\n")) :
        BasePatternEndAt(k, JoinWith(parts, "\n"), p) = 0
\* the host with a leading "www." removed, the rest unchanged
WithoutLeadingWww(host) ==
    IF StartsWith(host, "www.") THEN SubSeq(host, 5, Len(host)) ELSE host
\* C16: when no pattern matches, detect_api_base_url returns "https://api."
\* followed by the host of domain with only a leading "www." removed
C16_FallbackStripsLeadingWww ==
    (pc = "based" /\ NoBasePattern(base_in.markdown_parts)) =>
        base_out = "https://api." \o WithoutLeadingWww(urlparse(base_in.domain).netloc)

(***************************************************************************)
(* Termination of scrape_documentation                                      *)
(***************************************************************************)
\* the pages the budget still allows to fetch
Budget == max_pages - Cardinality(visited)
\* an iteration lowers the pair (Budget, length of the frontier) in the
\* lexicographic order: a fetch lowers Budget, a skipped entry shortens the
\* frontier.  Budget is at least 1 while the loop runs, so only finitely many
\* iterations follow one another
IterationLowersVariant ==
    \/ Budget' < Budget /\ Budget' >= 0
    \/ Budget' = Budget /\ Len(pages_to_visit') < Len(pages_to_visit)
\* C17: every crawl terminates and returns a ScrapingResult: it is in the loop
\* or has returned, never ended another way; every iteration lowers the
\* variant, so the loop is left after finitely many iterations; and what it is
\* left to is the return, which sets the result
C17_CrawlReturns ==
    /\ [](pc \in {"loop", "done"})
    /\ [](pc = "done" => result # NoResult)
    /\ [][pc = "loop" /\ pc' = "loop" => IterationLowersVariant]_vars
\* the variant part alone
IterationsAreFinite ==
    [][pc = "loop" /\ pc' = "loop" => IterationLowersVariant]_vars


====
